---- MODULE Spec2Model ----
(***************************************************************************)
(* Model of graph<VertexT, WeightT> (src/graph.h): a directed weighted     *)
(* graph kept as a vertex vector (Vertices) and an unordered_map from a    *)
(* source vertex to its vector of (destination, weight) pairs (adjList).   *)
(*                                                                         *)
(* The two data members are the program state.  Every public member        *)
(* function is one action.  The remaining variables record what the last   *)
(* call was and what the caller observed from it: its return value, the    *)
(* caller's weight variable passed by reference, an exception leaving the  *)
(* call, and the text the call wrote to the stream argument and to cout.   *)
(***************************************************************************)
EXTENDS Integers, Sequences, FiniteSets

VARIABLES
    Vertices,   \* vector<VertexT> Vertices
    adjList,    \* unordered_map<VertexT, vector<pair<VertexT, WeightT>>> adjList
    op,         \* the last call: its name and its arguments as passed in
    ret,        \* what the last call gave back: its return value; for getWeight the
                \* returned bool and the caller's weight variable (WeightT&) after
                \* the call; "no_return" if it threw, "void" for dump and the constructor
    exc,        \* the exception that left the last call, "none" if it returned
    sink,       \* lines the last call wrote to the ostream passed as argument
    coutS,      \* lines the last call wrote to std::cout
    added,      \* history: the (from, to) pairs for which addEdge has returned true
    calls       \* history: number of addVertex/addEdge calls made so far

vars == <<Vertices, adjList, op, ret, exc, sink, coutS, added, calls>>

\* ---- bounds ------------------------------------------------------------
MaxVertex == 3      \* vertex values are 1..MaxVertex
MaxWeight == 2      \* weight values are 1..MaxWeight
MaxCalls  == 5      \* addVertex/addEdge calls explored per run

VertexT == 1..MaxVertex
WeightT == 1..MaxWeight

\* ---- helpers for the containers ------------------------------------------
Range(s) == {s[i] : i \in 1..Len(s)}

\* unordered_map::operator[] : a missing key is inserted with an empty vector
Subscript(m, k) ==
    IF k \in DOMAIN m THEN m
    ELSE [x \in (DOMAIN m) \cup {k} |-> IF x = k THEN <<>> ELSE m[x]]

\* std::set<VertexT>::insert on a set kept as its sorted iteration sequence
SetInsert(S, x) ==
    IF x \in Range(S) THEN S
    ELSE LET lo == SelectSeq(S, LAMBDA y : y < x)
             hi == SelectSeq(S, LAMBDA y : y > x)
         IN  lo \o <<x>> \o hi

\* ---- private: _LookupVertex ----------------------------------------------
\* the scan of a vertex vector Vs from 0-based position i
RECURSIVE LookupFrom(_, _, _)
LookupFrom(Vs, v, i) ==
    IF i >= Len(Vs) THEN -1
    ELSE IF Vs[i + 1] = v THEN i
    ELSE LookupFrom(Vs, v, i + 1)

\* index of v in Vertices (0-based), -1 if absent
LookupVertex(v) == LookupFrom(Vertices, v, 0)

\* ---- NumVertices / NumEdges ------------------------------------------------
NumVertices == Len(Vertices)

RECURSIVE SumSizes(_, _)
SumSizes(m, keys) ==
    IF keys = {} THEN 0
    ELSE LET k == CHOOSE x \in keys : TRUE
         IN  Len(m[k]) + SumSizes(m, keys \ {k})

NumEdgesOf(m) == SumSizes(m, DOMAIN m)
NumEdges == NumEdgesOf(adjList)

\* ---- addVertex -------------------------------------------------------------
\* faulty variant: push_back without the scan for an equal vertex
addVertexResult_NoScan(v) ==
    [ret |-> TRUE, Vertices |-> Append(Vertices, v)]

\* the scan of Vertices for v, then push_back
addVertexResult(v) ==
    IF \E i \in 1..Len(Vertices) : Vertices[i] = v
    THEN [ret |-> FALSE, Vertices |-> Vertices]
    ELSE [ret |-> TRUE,  Vertices |-> Append(Vertices, v)]

Quiet == /\ exc' = "none"
         /\ sink' = <<>>
         /\ coutS' = <<>>

addVertex(v) ==
    /\ calls < MaxCalls
    /\ LET r == addVertexResult(v) IN
         /\ Vertices' = r.Vertices
         /\ ret' = r.ret
    /\ op' = [name |-> "addVertex", v |-> v]
    /\ calls' = calls + 1
    /\ Quiet
    /\ UNCHANGED <<adjList, added>>

\* ---- addEdge ---------------------------------------------------------------
\* position (1-based) of the first record of vec whose destination is to, 0 if none
RECURSIVE FindEdgeFrom(_, _, _)
FindEdgeFrom(vec, to, i) ==
    IF i > Len(vec) THEN 0
    ELSE IF vec[i][1] = to THEN i
    ELSE FindEdgeFrom(vec, to, i + 1)

FindEdge(vec, to) == FindEdgeFrom(vec, to, 1)

\* faulty variant: the scan iterates over copies (auto instead of auto&), so
\* the weight of an existing record is never overwritten
addEdgeResult_NoOverwrite(from, to, weight) ==
    IF LookupVertex(from) < 0 \/ LookupVertex(to) < 0
    THEN [ret |-> FALSE, adjList |-> adjList]
    ELSE LET m == Subscript(adjList, from)
             i == FindEdge(m[from], to)
         IN  IF i > 0
             THEN [ret |-> TRUE, adjList |-> m]
             ELSE [ret |-> TRUE, adjList |-> [m EXCEPT ![from] = Append(@, <<to, weight>>)]]

\* faulty variant: no scan for an existing record, every call appends
addEdgeResult_AlwaysAppend(from, to, weight) ==
    IF LookupVertex(from) < 0 \/ LookupVertex(to) < 0
    THEN [ret |-> FALSE, adjList |-> adjList]
    ELSE LET m == Subscript(adjList, from)
         IN  [ret |-> TRUE, adjList |-> [m EXCEPT ![from] = Append(@, <<to, weight>>)]]

\* faulty variant: adjList[from] is touched before the vertices are validated
addEdgeResult_SubscriptFirst(from, to, weight) ==
    LET m == Subscript(adjList, from)
        i == FindEdge(m[from], to)
    IN  IF LookupVertex(from) < 0 \/ LookupVertex(to) < 0
        THEN [ret |-> FALSE, adjList |-> m]
        ELSE IF i > 0
             THEN [ret |-> TRUE, adjList |-> [m EXCEPT ![from][i][2] = weight]]
             ELSE [ret |-> TRUE, adjList |-> [m EXCEPT ![from] = Append(@, <<to, weight>>)]]

\* faulty variant: only the source vertex is validated
addEdgeResult_NoToCheck(from, to, weight) ==
    IF LookupVertex(from) < 0
    THEN [ret |-> FALSE, adjList |-> adjList]
    ELSE LET m == Subscript(adjList, from)
             i == FindEdge(m[from], to)
         IN  IF i > 0
             THEN [ret |-> TRUE, adjList |-> [m EXCEPT ![from][i][2] = weight]]
             ELSE [ret |-> TRUE, adjList |-> [m EXCEPT ![from] = Append(@, <<to, weight>>)]]

\* the lookups, the scan of adjList[from] for to, then overwrite or push_back
addEdgeResult(from, to, weight) ==
    IF LookupVertex(from) < 0 \/ LookupVertex(to) < 0
    THEN [ret |-> FALSE, adjList |-> adjList]
    ELSE LET m == Subscript(adjList, from)
             i == FindEdge(m[from], to)
         IN  IF i > 0
             THEN [ret |-> TRUE, adjList |-> [m EXCEPT ![from][i][2] = weight]]
             ELSE [ret |-> TRUE, adjList |-> [m EXCEPT ![from] = Append(@, <<to, weight>>)]]

addEdge(from, to, weight) ==
    /\ calls < MaxCalls
    /\ LET r == addEdgeResult(from, to, weight) IN
         /\ adjList' = r.adjList
         /\ ret' = r.ret
         /\ added' = IF r.ret THEN added \cup {<<from, to>>} ELSE added
    /\ op' = [name |-> "addEdge", from |-> from, to |-> to, weight |-> weight]
    /\ calls' = calls + 1
    /\ Quiet
    /\ UNCHANGED Vertices

\* ---- getWeight -------------------------------------------------------------
\* weight is the caller's variable as passed in; adjList.at(from) throws
\* std::out_of_range when from is not a key of the map.  getWeightOn is the
\* body of getWeight run on a graph with members Vs and m.
getWeightOn(Vs, m, from, to, weight) ==
    IF LookupFrom(Vs, from, 0) < 0 \/ LookupFrom(Vs, to, 0) < 0
    THEN [ret |-> FALSE, weight |-> weight, exc |-> "none", adjList |-> m]
    ELSE IF from \notin DOMAIN m
    THEN [ret |-> "no_return", weight |-> weight, exc |-> "out_of_range", adjList |-> m]
    ELSE LET targetVertex == m[from]
             i == FindEdge(targetVertex, to)
         IN  IF i > 0
             THEN [ret |-> TRUE, weight |-> targetVertex[i][2], exc |-> "none", adjList |-> m]
             ELSE [ret |-> FALSE, weight |-> weight, exc |-> "none", adjList |-> m]

\* faulty variant: the edge list is fetched with adjList[from] on a non-const
\* graph, which inserts an empty entry for a source that has none
getWeightResult_Subscript(from, to, weight) ==
    IF LookupVertex(from) < 0 \/ LookupVertex(to) < 0
    THEN [ret |-> FALSE, weight |-> weight, exc |-> "none", adjList |-> adjList]
    ELSE LET m == Subscript(adjList, from)
             i == FindEdge(m[from], to)
         IN  IF i > 0
             THEN [ret |-> TRUE, weight |-> m[from][i][2], exc |-> "none", adjList |-> m]
             ELSE [ret |-> FALSE, weight |-> weight, exc |-> "none", adjList |-> m]

getWeightResult(from, to, weight) == getWeightOn(Vertices, adjList, from, to, weight)

getWeight(from, to, weight) ==
    /\ LET r == getWeightResult(from, to, weight) IN
         /\ ret' = IF r.exc = "none" THEN [found |-> r.ret, weight |-> r.weight]
                                     ELSE "no_return"
         /\ exc' = r.exc
         /\ adjList' = r.adjList
    /\ op' = [name |-> "getWeight", from |-> from, to |-> to, weight |-> weight]
    /\ sink' = <<>>
    /\ coutS' = <<>>
    /\ UNCHANGED <<Vertices, added, calls>>

\* ---- neighbors -------------------------------------------------------------
RECURSIVE InsertAll(_, _, _)
InsertAll(S, vec, i) ==
    IF i > Len(vec) THEN S
    ELSE InsertAll(SetInsert(S, vec[i][1]), vec, i + 1)

\* faulty variant: the loop over the edge records starts one record late
neighborsResult_SkipFirst(v) ==
    IF LookupVertex(v) < 0
    THEN [ret |-> <<>>, exc |-> "none"]
    ELSE IF v \notin DOMAIN adjList
    THEN [ret |-> "no_return", exc |-> "out_of_range"]
    ELSE [ret |-> InsertAll(<<>>, adjList[v], 2), exc |-> "none"]

\* the set S as its sorted iteration sequence; adjList.at(v) throws
\* std::out_of_range when v is not a key of the map
neighborsResult(v) ==
    IF LookupVertex(v) < 0
    THEN [ret |-> <<>>, exc |-> "none"]
    ELSE IF v \notin DOMAIN adjList
    THEN [ret |-> "no_return", exc |-> "out_of_range"]
    ELSE [ret |-> InsertAll(<<>>, adjList[v], 1), exc |-> "none"]

neighbors(v) ==
    /\ LET r == neighborsResult(v) IN
         /\ ret' = r.ret
         /\ exc' = r.exc
    /\ op' = [name |-> "neighbors", v |-> v]
    /\ sink' = <<>>
    /\ coutS' = <<>>
    /\ UNCHANGED <<Vertices, adjList, added, calls>>

\* ---- getVertices / NumVertices / NumEdges as calls -----------------------------
Query(name, value) ==
    /\ op' = [name |-> name]
    /\ ret' = value
    /\ Quiet
    /\ UNCHANGED <<Vertices, adjList, added, calls>>

getVertices == Query("getVertices", Vertices)

callNumVertices == Query("NumVertices", NumVertices)

callNumEdges == Query("NumEdges", NumEdges)

\* ---- dump --------------------------------------------------------------------
\* the orders in which a range-for may visit the keys of the unordered_map
IterationOrders(m) ==
    {o \in [1..Cardinality(DOMAIN m) -> DOMAIN m] : Range(o) = DOMAIN m}

\* one output line, "<src>: (<src>,<dst>,<w>) (<src>,<dst>,<w>) ... \n":
\* the leading vertex and the triples printed after it
dumpLine(m, k) ==
    [src |-> k, recs |-> [j \in 1..Len(m[k]) |-> <<k, m[k][j][1], m[k][j][2]>>]]

dumpLines(m, order) == [i \in 1..Len(order) |-> dumpLine(m, order[i])]

\* the body streams to cout; the parameter output is never used
dump ==
    /\ \E order \in IterationOrders(adjList) :
         /\ coutS' = dumpLines(adjList, order)
         /\ sink' = <<>>
    /\ op' = [name |-> "dump"]
    /\ ret' = "void"
    /\ exc' = "none"
    /\ UNCHANGED <<Vertices, adjList, added, calls>>

Init ==
    /\ Vertices = <<>>
    /\ adjList = [k \in {} |-> <<>>]
    /\ op = [name |-> "graph"]
    /\ ret = "void"
    /\ exc = "none"
    /\ sink = <<>>
    /\ coutS = <<>>
    /\ added = {}
    /\ calls = 0

Next ==
    \/ \E v \in VertexT : addVertex(v)
    \/ \E from \in VertexT, to \in VertexT, weight \in WeightT : addEdge(from, to, weight)
    \/ \E from \in VertexT, to \in VertexT, weight \in WeightT : getWeight(from, to, weight)
    \/ \E v \in VertexT : neighbors(v)
    \/ getVertices
    \/ callNumVertices
    \/ callNumEdges
    \/ dump

Spec == Init /\ [][Next]_vars

\* ======================= properties ===========================================
Registered(v) == LookupVertex(v) >= 0

\* destinations d for which addEdge(v, d, _) has succeeded
Dests(v) == {d \in VertexT : <<v, d>> \in added}

QueryNames == {"getWeight", "neighbors", "NumVertices", "NumEdges", "getVertices"}

\* C1: after addEdge(from,to,w) on registered from and to (from = to allowed)
\* the call has returned true, and a getWeight(from,to) issued in that state
\* returns true with the caller's weight set to exactly w.
C1_AddEdgeThenGetWeight ==
    (op.name = "addEdge" /\ Registered(op.from) /\ Registered(op.to)) =>
        /\ ret = TRUE
        /\ \A w0 \in WeightT :
             LET r == getWeightResult(op.from, op.to, w0)
             IN  r.exc = "none" /\ r.ret = TRUE /\ r.weight = op.weight

\* a self-loop was added to a source that already had another edge
C1_Witness ==
    /\ op.name = "addEdge"
    /\ ret = TRUE
    /\ op.from = op.to
    /\ Len(adjList[op.from]) >= 2

\* C2 (as claimed): getWeight(from,to) on registered from and to with no edge
\* from->to ever added returns normally with false and leaves the caller's
\* weight as it was passed in.
C2_MissingEdgeReturnsFalse ==
    (op.name = "getWeight" /\ Registered(op.from) /\ Registered(op.to)
        /\ <<op.from, op.to>> \notin added) =>
        /\ exc = "none"
        /\ ret.found = FALSE
        /\ ret.weight = op.weight

\* C3 (as claimed): neighbors(v) returns normally with the empty set when v
\* is not registered and when v is registered without any outgoing edge.
C3_NoNeighborsIsEmpty ==
    (op.name = "neighbors" /\ (~Registered(op.v) \/ Dests(op.v) = {})) =>
        /\ exc = "none"
        /\ ret = <<>>

\* C4: addVertex(v) for v not in the registry returns true and NumVertices
\* grows by exactly one; addVertex(v) for v already in the registry returns
\* false and leaves Vertices and adjList as they were; Vertices never holds
\* the same value twice.
C4_AddVertex ==
    [][op'.name = "addVertex" =>
        /\ IF op'.v \notin Range(Vertices)
           THEN ret' = TRUE /\ Len(Vertices') = NumVertices + 1
                /\ Vertices'[Len(Vertices')] = op'.v
           ELSE ret' = FALSE /\ Len(Vertices') = NumVertices
                /\ Vertices' = Vertices /\ adjList' = adjList
        /\ Cardinality(Range(Vertices')) = Len(Vertices')]_vars

\* a repeated addVertex was rejected in a graph that has edges
C4_Witness ==
    /\ op.name = "addVertex"
    /\ ret = FALSE
    /\ NumVertices >= 2
    /\ NumEdges >= 1

\* C5: addEdge(from,to,w2) on a pair for which addEdge has succeeded before
\* returns true, leaves NumEdges as it was, leaves exactly one record for to
\* in from's edge list, and getWeight(from,to) then returns (w2, true).
C5_OverwriteDoesNotDuplicate ==
    [][(op'.name = "addEdge" /\ <<op'.from, op'.to>> \in added) =>
        /\ ret' = TRUE
        /\ NumEdgesOf(adjList') = NumEdges
        /\ Cardinality({i \in 1..Len(adjList'[op'.from]) :
                          adjList'[op'.from][i][1] = op'.to}) = 1
        /\ \A w0 \in WeightT :
             LET r == getWeightOn(Vertices', adjList', op'.from, op'.to, w0)
             IN  r.exc = "none" /\ r.ret = TRUE /\ r.weight = op'.weight]_vars

\* the last addEdge hit a record that is not the last of its list, so it
\* overwrote rather than appended
C5_Witness ==
    /\ op.name = "addEdge"
    /\ ret = TRUE
    /\ FindEdge(adjList[op.from], op.to) < Len(adjList[op.from])

\* C6: addEdge(from,to,w) with from or to not registered returns false and
\* changes nothing: Vertices, the keys of adjList, every edge list, and so
\* NumVertices and NumEdges, are as before the call.
C6_AddEdgeUnknownVertex ==
    [][(op'.name = "addEdge"
          /\ (op'.from \notin Range(Vertices) \/ op'.to \notin Range(Vertices))) =>
        /\ ret' = FALSE
        /\ Vertices' = Vertices
        /\ DOMAIN adjList' = DOMAIN adjList
        /\ adjList' = adjList
        /\ Len(Vertices') = NumVertices
        /\ NumEdgesOf(adjList') = NumEdges]_vars

\* addEdge failed on an unknown destination while the registered source had
\* no adjacency entry yet, in a graph that has edges
C6_Witness ==
    /\ op.name = "addEdge"
    /\ ret = FALSE
    /\ Registered(op.from)
    /\ op.from \notin DOMAIN adjList
    /\ ~Registered(op.to)
    /\ NumEdges >= 1

\* C7: neighbors(v) for a registered v with at least one outgoing edge
\* returns exactly the destinations d for which addEdge(v,d,_) has succeeded,
\* each once.
C7_NeighborsExact ==
    (op.name = "neighbors" /\ Registered(op.v) /\ Dests(op.v) # {}) =>
        /\ exc = "none"
        /\ Range(ret) = Dests(op.v)
        /\ Len(ret) = Cardinality(Dests(op.v))

\* neighbors returned two vertices whose edges were added in descending order
C7_Witness ==
    /\ op.name = "neighbors"
    /\ exc = "none"
    /\ Len(ret) >= 2
    /\ adjList[op.v][1][1] > adjList[op.v][2][1]

\* the lines dump has to produce: one per source with at least one edge
SourcesWithEdges(m) == {k \in DOMAIN m : Len(m[k]) >= 1}

\* C8 (as claimed): dump(sink) writes to sink exactly one line per source
\* that has an outgoing edge, each listing that source's records, writes to
\* no other stream, and leaves the graph unchanged.
C8_DumpWritesToSink ==
    [][op'.name = "dump" =>
        /\ coutS' = <<>>
        /\ Len(sink') = Cardinality(SourcesWithEdges(adjList))
        /\ \A k \in SourcesWithEdges(adjList) :
             \E i \in 1..Len(sink') : sink'[i] = dumpLine(adjList, k)
        /\ Vertices' = Vertices
        /\ adjList' = adjList]_vars

\* C9: getWeight, neighbors, NumVertices, NumEdges and getVertices leave
\* Vertices and adjList (its keys and every edge list) exactly as they were,
\* whatever their arguments.
C9_QueriesReadOnly ==
    [][op'.name \in QueryNames =>
        /\ Vertices' = Vertices
        /\ DOMAIN adjList' = DOMAIN adjList
        /\ adjList' = adjList]_vars

\* getWeight was asked about a registered source that has no adjacency entry
C9_Witness ==
    /\ op.name = "getWeight"
    /\ Registered(op.from)
    /\ Registered(op.to)
    /\ op.from \notin DOMAIN adjList
    /\ NumEdges >= 1

\* C10: every key of adjList and every destination stored in an edge record
\* is an element of Vertices.
C10_AdjacencyWithinRegistry ==
    /\ DOMAIN adjList \subseteq Range(Vertices)
    /\ \A k \in DOMAIN adjList :
         \A i \in 1..Len(adjList[k]) : adjList[k][i][1] \in Range(Vertices)

\* a failing addEdge was made on a graph that has an edge between two
\* distinct vertices while another value is still unregistered
C10_Witness ==
    /\ op.name = "addEdge"
    /\ ret = FALSE
    /\ \E k \in DOMAIN adjList :
         \E i \in 1..Len(adjList[k]) : adjList[k][i][1] # k
    /\ \E v \in VertexT : ~Registered(v)
====
